---- MODULE Spec2Model ----
(***************************************************************************)
(* Model of src/main.go: the lifecycle of run() (telemetry setup, the      *)
(* serving goroutine, the select between a server fault and an interrupt,  *)
(* srv.Shutdown and the deferred otelShutdown) and the request handlers    *)
(* ("/dice" and "/") served behind the otelhttp wrapper.                   *)
(***************************************************************************)
EXTENDS Integers, Sequences, FiniteSets, TLC

\* ---------------------------------------------------------------- bounds
\* number of requests the listener accepts during one execution of run()
MaxReq == 1
\* number of requests the running server handles concurrently
MaxDice == 2

\* ------------------------------------------------------ program constants
\* rand.Intn(6): the number of faces of the die
Sides == 6
\* make(chan error, 1): capacity of srvErr
SrvErrCap == 1

\* ----------------------------------------------------------------- errors
\* An error value is the sequence of the leaf errors it wraps; nil is <<>>.
Nil == <<>>
ErrServerClosed == <<"http: Server closed">>
ErrBind == <<"listen tcp :8080: bind: address already in use">>
ErrAccept == <<"accept tcp [::]:8080: use of closed network connection">>
ErrListenerClose == <<"close tcp [::]:8080: close failed">>
ErrOTelShutdown == <<"otel: shutdown failed">>

\* faulty variant of Join: the second error replaces the first
JoinMasking(a, b) == IF b # Nil THEN b ELSE a
\* errors.Join(a, b): nil when both are nil, else an error wrapping the
\* non-nil ones in order
Join(a, b) == a \o b

\* errors.Is(e, leaf) for a leaf error
Contains(e, leaf) == \E i \in 1..Len(e) : \E j \in 1..Len(leaf) : e[i] = leaf[j]

\* ------------------------------------------------------------------ state
VARIABLES
  runPc,      \* position of main/run: setup, construct, select, shutdown,
              \* draining, defer, returned, exited
  err,        \* run's named result
  exitCode,   \* process exit status, -1 while the process runs
  ctxDone,    \* the NotifyContext ctx is cancelled
  stopped,    \* stop() has been called
  setupErr,   \* error returned by setupOTelSDK
  otelCalls,  \* number of invocations of otelShutdown
  otelErr,    \* error returned by otelShutdown
  branch,     \* select case taken: none, fault, interrupt
  srvBuilt,   \* &http.Server{...} has been constructed
  gPc,        \* serving goroutine: none, start, serving, send, done
  lsErr,      \* value returned by srv.ListenAndServe()
  srvErr,     \* the buffered channel srvErr
  listening,  \* the listener is bound and open
  inShutdown, \* srv.Shutdown has been called
  shutErr,    \* error returned by srv.Shutdown
  req,        \* per request: connection/handler state and its outputs
  rollCnt,    \* the dice.rolls counter: roll.value -> sum of increments
  first       \* which of the two events of the select happened first:
              \* none, fault (a value was put on srvErr), interrupt

lifeVars == <<runPc, err, exitCode, ctxDone, stopped, setupErr, otelCalls,
              otelErr, branch, shutErr, first>>
srvVars == <<srvBuilt, gPc, lsErr, srvErr, listening, inShutdown>>
reqVars == <<req, rollCnt>>
vars == <<lifeVars, srvVars, reqVars>>

\* ---------------------------------------------------------------- routing
\* A path is the sequence of its segments: "/" is <<>>, "/dice" is <<"dice">>.
\* A pattern has literal segments, wild[i] names the wildcard at segment i
\* ("" for a literal), and subtree says that it ends in "/".
\* newHTTPHandler: handleFunc("/", hello); handleFunc("/dice", dice)
Routes ==
  { [pattern |-> "/", segs |-> <<>>, wild |-> <<>>, subtree |-> TRUE,
     fn |-> "hello"],
    [pattern |-> "/dice", segs |-> <<"dice">>, wild |-> <<"">>,
     subtree |-> FALSE, fn |-> "dice"] }

\* http.HandleFunc("/", ...) in run(): registered on http.DefaultServeMux
DefaultServeMux ==
  { [pattern |-> "/", segs |-> <<>>, wild |-> <<>>, subtree |-> TRUE,
     fn |-> "root"] }

\* srv.Handler is newHTTPHandler(): the server dispatches through Handler
\* when it is set, and http.DefaultServeMux is consulted only when it is nil
SrvHandler == Routes

\* ServeMux matching of one pattern against a path
Matches(pat, path) ==
  /\ IF pat.subtree THEN Len(path) >= Len(pat.segs)
                    ELSE Len(path) = Len(pat.segs)
  /\ \A i \in 1..Len(pat.segs) :
       pat.wild[i] # "" \/ pat.segs[i] = path[i]

\* ServeMux precedence: the most specific (longest) matching pattern
Match(mux, path) ==
  CHOOSE pat \in mux :
    /\ Matches(pat, path)
    /\ \A q \in mux : Matches(q, path) => Len(q.segs) <= Len(pat.segs)

\* r.PathValue(name): the path segment bound to the wildcard called name in
\* the matched pattern, "" when the pattern has no such wildcard
PathValue(pat, path, name) ==
  IF \E i \in 1..Len(pat.segs) : pat.wild[i] = name
    THEN path[CHOOSE i \in 1..Len(pat.segs) : pat.wild[i] = name]
    ELSE ""

PatternOf(mux, p) == CHOOSE pat \in mux : pat.pattern = p

\* ------------------------------------------------------------- formatting
Digit(d) == <<"0", "1", "2", "3", "4", "5", "6", "7", "8", "9">>[d + 1]

\* strconv.Itoa for a non-negative integer
RECURSIVE Itoa(_)
Itoa(n) == IF n < 10 THEN Digit(n) ELSE Itoa(n \div 10) \o Digit(n % 10)

\* lines 126-131 of dice: the log message for a player value
Msg(player) ==
  IF player # "" THEN player \o " is rolling the dice"
                 ELSE "Anonymous player is rolling the dice"

\* --------------------------------------------------------------- requests
\* the requests a client may send: path and the player query parameter
Inputs ==
  { [path |-> <<>>, query |-> ""],
    [path |-> <<"dice">>, query |-> ""],
    [path |-> <<"dice">>, query |-> "Alice"],
    [path |-> <<"dice", "Alice">>, query |-> ""] }

\* the requests without a player value
PlainInputs ==
  { [path |-> <<>>, query |-> ""],
    [path |-> <<"dice">>, query |-> ""] }

\* ------------------------------------------------------------ trace context
\* A span context is <<trace id, span id>>; a context.Context that carries no
\* span has NoSpan.  The SDK's id generator hands out fresh ids: the trace id
\* of the root span of request r and the span id of its span called name.
NoSpan == <<>>
NewTraceID(r) == <<"trace", r>>
NewSpanID(r, name) == <<"span", r, name>>
TraceID(sc) == sc[1]
SpanID(sc) == sc[2]

\* per request: srvSpan is the span of otelhttp.NewHandler with its
\* http.route tag in route; span is the "roll" span and parent its parent;
\* logCtx and addCtx are the span contexts of the ctx given to
\* logger.InfoContext and to rollCnt.Add, addDim the roll.value of the Add
NoReq ==
  [pc |-> "none", path |-> <<>>, query |-> "", pattern |-> "",
   srvStarts |-> 0, srvEnds |-> 0, spanStarts |-> 0, spanEnds |-> 0,
   roll |-> 0, logMsg |-> "", logResult |-> 0, attr |-> 0, adds |-> 0,
   body |-> "", status |-> 0, stdlog |-> <<>>, writeFailed |-> FALSE,
   panicked |-> FALSE, atIntr |-> FALSE,
   srvSpan |-> NoSpan, route |-> "", span |-> NoSpan, parent |-> NoSpan,
   logCtx |-> NoSpan, addCtx |-> NoSpan, addDim |-> 0]

\* the requests of this execution
Reqs == DOMAIN req

HandlerPcs == {"hello", "dice", "log", "attr", "add", "write", "end", "ret"}

\* the handler of request r has been entered and has not yet returned to
\* the server
InFlight(r) == req[r].pc \in HandlerPcs

Alive == runPc # "exited"

\* ctx of signal.NotifyContext is done once the signal has arrived or stop()
\* has been called
CtxCancelled == ctxDone \/ stopped

\* BaseContext returns ctx: the context of the request of a running handler
\* is derived from it and is cancelled with it
RequestCtxCancelled(r) == InFlight(r) /\ CtxCancelled

\* ------------------------------------------------------------------- Init
Init ==
  /\ runPc = "setup"
  /\ err = Nil
  /\ exitCode = -1
  /\ ctxDone = FALSE
  /\ stopped = FALSE
  /\ setupErr = Nil
  /\ otelCalls = 0
  /\ otelErr = Nil
  /\ branch = "none"
  /\ shutErr = Nil
  /\ srvBuilt = FALSE
  /\ gPc = "none"
  /\ lsErr = Nil
  /\ srvErr = <<>>
  /\ listening = FALSE
  /\ inShutdown = FALSE
  /\ req = [r \in 1..MaxReq |-> NoReq]
  /\ rollCnt = [v \in 1..Sides |-> 0]
  /\ first = "none"

\* ------------------------------------------------------- main and run()
\* os.Interrupt is delivered while signal.NotifyContext is registered: ctx
\* is cancelled.  The requests whose handler is running at that moment are
\* remembered in atIntr.
Interrupt ==
  /\ Alive /\ runPc # "returned"
  /\ ~ctxDone /\ ~stopped
  /\ ctxDone' = TRUE
  /\ first' = IF first = "none" THEN "interrupt" ELSE first
  /\ req' = [r \in Reqs |-> [req[r] EXCEPT !.atIntr = InFlight(r)]]
  /\ UNCHANGED <<runPc, err, exitCode, stopped, setupErr, otelCalls, otelErr,
                 branch, shutErr, srvVars, rollCnt>>

\* faulty variant of SetupOTelSDK: the setup error is logged and run() goes on
SetupOTelSDKContinue ==
  /\ runPc = "setup"
  /\ \E e \in {Nil, <<"otel: setup failed">>} :
       /\ setupErr' = e
       /\ runPc' = "construct"
       /\ exitCode' = exitCode
  /\ UNCHANGED <<first, err, ctxDone, stopped, otelCalls, otelErr, branch, shutErr,
                 srvVars, reqVars>>
\* otelShutdown, err := setupOTelSDK(...); if err != nil { log.Fatalf(...) }
\* log.Fatalf exits the process with status 1 without running the defers.
SetupOTelSDK ==
  /\ runPc = "setup"
  /\ \E e \in {Nil, <<"otel: setup failed">>} :
       /\ setupErr' = e
       /\ runPc' = IF e # Nil THEN "exited" ELSE "construct"
       /\ exitCode' = IF e # Nil THEN 1 ELSE exitCode
  /\ UNCHANGED <<first, err, ctxDone, stopped, otelCalls, otelErr, branch, shutErr,
                 srvVars, reqVars>>

\* srv := &http.Server{...}; srvErr := make(chan error, 1); go func() {...}()
Construct ==
  /\ runPc = "construct"
  /\ srvBuilt' = TRUE
  /\ gPc' = "start"
  /\ runPc' = "select"
  /\ UNCHANGED <<first, err, exitCode, ctxDone, stopped, setupErr, otelCalls,
                 otelErr, branch, shutErr, lsErr, srvErr, listening,
                 inShutdown, reqVars>>

\* select { case err = <-srvErr: return; case <-ctx.Done(): stop() }
\* When both cases are ready the runtime picks one of them.
SelectFault ==
  /\ runPc = "select"
  /\ Len(srvErr) > 0
  /\ err' = Head(srvErr)
  /\ srvErr' = Tail(srvErr)
  /\ branch' = "fault"
  /\ runPc' = "defer"
  /\ UNCHANGED <<first, exitCode, ctxDone, stopped, setupErr, otelCalls, otelErr,
                 shutErr, srvBuilt, gPc, lsErr, listening, inShutdown,
                 reqVars>>

SelectInterrupt ==
  /\ runPc = "select"
  /\ ctxDone
  /\ stopped' = TRUE
  /\ branch' = "interrupt"
  /\ runPc' = "shutdown"
  /\ UNCHANGED <<first, err, exitCode, ctxDone, setupErr, otelCalls, otelErr,
                 shutErr, srvVars, reqVars>>

\* err = srv.Shutdown(context.Background()), first part: the server is marked
\* as shutting down and its listener is closed; closing may fail.
ShutdownBegin ==
  /\ runPc = "shutdown"
  /\ inShutdown' = TRUE
  /\ listening' = FALSE
  /\ \E e \in {Nil, ErrListenerClose} :
       shutErr' = IF listening THEN e ELSE Nil
  /\ runPc' = "draining"
  /\ UNCHANGED <<first, err, exitCode, ctxDone, stopped, setupErr, otelCalls,
                 otelErr, branch, srvBuilt, gPc, lsErr, srvErr, reqVars>>

\* srv.Shutdown, second part: with context.Background() there is no
\* deadline; it returns once every connection is idle or closed.
ShutdownEnd ==
  /\ runPc = "draining"
  /\ \A r \in Reqs : req[r].pc \in {"none", "closed", "done"}
  /\ err' = shutErr
  /\ runPc' = "defer"
  /\ UNCHANGED <<first, exitCode, ctxDone, stopped, setupErr, otelCalls, otelErr,
                 branch, shutErr, srvVars, reqVars>>

\* faulty variant of RunDefer: otelShutdown is invoked twice
RunDeferTwice ==
  /\ runPc = "defer"
  /\ otelCalls' = otelCalls + 2
  /\ \E e \in {Nil, ErrOTelShutdown} :
       /\ otelErr' = e
       /\ err' = Join(err, e)
  /\ stopped' = TRUE
  /\ runPc' = "returned"
  /\ UNCHANGED <<first, exitCode, ctxDone, setupErr, branch, shutErr, srvVars,
                 reqVars>>
\* defer func() { err = errors.Join(err, otelShutdown(...)) }(), then the
\* deferred stop(), on the return of run()
RunDefer ==
  /\ runPc = "defer"
  /\ otelCalls' = otelCalls + 1
  /\ \E e \in {Nil, ErrOTelShutdown} :
       /\ otelErr' = e
       /\ err' = Join(err, e)
  /\ stopped' = TRUE
  /\ runPc' = "returned"
  /\ UNCHANGED <<first, exitCode, ctxDone, setupErr, branch, shutErr, srvVars,
                 reqVars>>

\* main: if err := run(); err != nil { log.Fatalf(...) }; the process exits
\* and every goroutine still running ends with it
MainExit ==
  /\ runPc = "returned"
  /\ exitCode' = IF err # Nil THEN 1 ELSE 0
  /\ runPc' = "exited"
  /\ UNCHANGED <<first, err, ctxDone, stopped, setupErr, otelCalls, otelErr, branch,
                 shutErr, srvVars, reqVars>>

\* --------------------------------------- the serving goroutine (line 59-61)
\* srv.ListenAndServe() starts: it returns ErrServerClosed at once when the
\* server is already shutting down, the bind error when net.Listen fails, and
\* otherwise enters the accept loop.
ListenAndServe ==
  /\ Alive /\ gPc = "start"
  /\ \/ /\ inShutdown
        /\ lsErr' = ErrServerClosed /\ gPc' = "send"
        /\ listening' = listening
     \/ /\ ~inShutdown
        /\ lsErr' = ErrBind /\ gPc' = "send"
        /\ listening' = listening
     \/ /\ ~inShutdown
        /\ lsErr' = lsErr /\ gPc' = "serving"
        /\ listening' = TRUE
  /\ UNCHANGED <<lifeVars, srvBuilt, srvErr, inShutdown, reqVars>>

\* the accept loop ends: with ErrServerClosed after Shutdown closed the
\* listener, or with the error of a failed Accept; Serve closes the listener
\* on its way out.
ServeReturn ==
  /\ Alive /\ gPc = "serving"
  /\ lsErr' = IF inShutdown THEN ErrServerClosed ELSE ErrAccept
  /\ listening' = FALSE
  /\ gPc' = "send"
  /\ UNCHANGED <<lifeVars, srvBuilt, srvErr, inShutdown, reqVars>>

\* faulty variant of SendSrvErr: the result is sent in a loop
SendSrvErrAgain ==
  /\ Alive /\ gPc = "send"
  /\ Len(srvErr) < SrvErrCap
  /\ srvErr' = Append(srvErr, lsErr)
  /\ gPc' = "send"
  /\ first' = IF first = "none" THEN "fault" ELSE first
  /\ UNCHANGED <<runPc, err, exitCode, ctxDone, stopped, setupErr, otelCalls,
                 otelErr, branch, shutErr, srvBuilt, lsErr, listening,
                 inShutdown, reqVars>>
\* srvErr <- (result of ListenAndServe): blocks while the buffer is full
SendSrvErr ==
  /\ Alive /\ gPc = "send"
  /\ Len(srvErr) < SrvErrCap
  /\ srvErr' = Append(srvErr, lsErr)
  /\ gPc' = "done"
  /\ first' = IF first = "none" THEN "fault" ELSE first
  /\ UNCHANGED <<runPc, err, exitCode, ctxDone, stopped, setupErr, otelCalls,
                 otelErr, branch, shutErr, srvBuilt, lsErr, listening,
                 inShutdown, reqVars>>

\* ------------------------------------------------ connections and handlers
\* the accept loop accepts a connection on which a client sends request in
Accept(r, in) ==
  /\ Alive /\ gPc = "serving" /\ listening /\ ~inShutdown
  /\ req[r].pc = "none"
  /\ \A q \in Reqs : q < r => req[q].pc # "none"
  /\ req' = [req EXCEPT ![r] = [NoReq EXCEPT !.pc = "new", !.path = in.path,
                                             !.query = in.query]]
  /\ UNCHANGED <<lifeVars, srvVars, rollCnt>>

\* ReadTimeout: time.Second: a connection whose request does not arrive is
\* closed without running a handler
ConnClose(r) ==
  /\ Alive /\ req[r].pc = "new"
  /\ req' = [req EXCEPT ![r] = [NoReq EXCEPT !.pc = "closed"]]
  /\ UNCHANGED <<lifeVars, srvVars, rollCnt>>

\* faulty variant of ServeHTTP: the route tag is the operation name "/" of
\* the wrapper, whatever pattern matched
ServeHTTPTagsOperation(r) ==
  /\ Alive /\ req[r].pc = "new"
  /\ LET pat == Match(SrvHandler, req[r].path)
     IN req' = [req EXCEPT ![r].pc = pat.fn,
                           ![r].pattern = pat.pattern,
                           ![r].srvStarts = @ + 1,
                           ![r].srvSpan = <<NewTraceID(r), NewSpanID(r, "/")>>,
                           ![r].route = "/"]
  /\ UNCHANGED <<lifeVars, srvVars, rollCnt>>
\* otelhttp.NewHandler(mux, "/") starts the server span (a new trace: no
\* trace context comes in with the request) and puts it in the request's
\* context, the mux picks the pattern and otelhttp.WithRouteTag(pattern, f)
\* tags the server span with the pattern and calls the route's function
ServeHTTP(r) ==
  /\ Alive /\ req[r].pc = "new"
  /\ LET pat == Match(SrvHandler, req[r].path)
     IN req' = [req EXCEPT ![r].pc = pat.fn,
                           ![r].pattern = pat.pattern,
                           ![r].srvStarts = @ + 1,
                           ![r].srvSpan = <<NewTraceID(r), NewSpanID(r, "/")>>,
                           ![r].route = pat.pattern]
  /\ UNCHANGED <<lifeVars, srvVars, rollCnt>>

\* the function registered for "/": hello only logs "Hola, Mundo!" with the
\* standard logger; the function given to http.HandleFunc writes the body
RootHandler(r) ==
  /\ Alive /\ req[r].pc \in {"hello", "root"}
  /\ req' = IF req[r].pc = "hello"
              THEN [req EXCEPT ![r].stdlog = Append(@, "Hola, Mundo!"),
                               ![r].pc = "ret"]
              ELSE [req EXCEPT ![r].body = @ \o "Hola, Mundo!",
                               ![r].status = 200,
                               ![r].pc = "ret"]
  /\ UNCHANGED <<lifeVars, srvVars, rollCnt>>

\* the span context carried by r.Context(): the server span of request r
RContext(r) == req[r].srvSpan

\* faulty variant of DiceStart: the roll is rand.Intn(6), without the 1
DiceStartZeroBased(r) ==
  /\ Alive /\ req[r].pc = "dice"
  /\ \E n \in 0..(Sides - 1) :
       req' = [req EXCEPT ![r].spanStarts = @ + 1,
                          ![r].parent = RContext(r),
                          ![r].span = <<TraceID(RContext(r)),
                                        NewSpanID(r, "roll")>>,
                          ![r].roll = n,
                          ![r].pc = "log"]
  /\ UNCHANGED <<lifeVars, srvVars, rollCnt>>
\* ctx, span := tracer.Start(r.Context(), "roll"); defer span.End();
\* roll := 1 + rand.Intn(6).  The new span is a child of the span of
\* r.Context(): same trace id, fresh span id; ctx carries the new span.
DiceStart(r) ==
  /\ Alive /\ req[r].pc = "dice"
  /\ \E n \in 0..(Sides - 1) :
       req' = [req EXCEPT ![r].spanStarts = @ + 1,
                          ![r].parent = RContext(r),
                          ![r].span = <<TraceID(RContext(r)),
                                        NewSpanID(r, "roll")>>,
                          ![r].roll = 1 + n,
                          ![r].pc = "log"]
  /\ UNCHANGED <<lifeVars, srvVars, rollCnt>>

\* faulty variant of DiceLog: the record is logged with r.Context()
DiceLogRequestCtx(r) ==
  /\ Alive /\ req[r].pc = "log"
  /\ LET pat == PatternOf(SrvHandler, req[r].pattern)
         player == PathValue(pat, req[r].path, "player")
     IN req' = [req EXCEPT ![r].logMsg = Msg(player),
                           ![r].logResult = req[r].roll,
                           ![r].logCtx = RContext(r),
                           ![r].pc = "attr"]
  /\ UNCHANGED <<lifeVars, srvVars, rollCnt>>
\* lines 126-132: the message from r.PathValue("player"), then
\* logger.InfoContext(ctx, msg, "result", roll) with the ctx of tracer.Start
DiceLog(r) ==
  /\ Alive /\ req[r].pc = "log"
  /\ LET pat == PatternOf(SrvHandler, req[r].pattern)
         player == PathValue(pat, req[r].path, "player")
     IN req' = [req EXCEPT ![r].logMsg = Msg(player),
                           ![r].logResult = req[r].roll,
                           ![r].logCtx = req[r].span,
                           ![r].pc = "attr"]
  /\ UNCHANGED <<lifeVars, srvVars, rollCnt>>

\* span.SetAttributes(attribute.Int("roll.value", roll))
DiceAttr(r) ==
  /\ Alive /\ req[r].pc = "attr"
  /\ req' = [req EXCEPT ![r].attr = req[r].roll, ![r].pc = "add"]
  /\ UNCHANGED <<lifeVars, srvVars, rollCnt>>

\* faulty variant of DiceAdd: the increment is 2
DiceAddTwo(r) ==
  /\ Alive /\ req[r].pc = "add"
  /\ rollCnt' = [rollCnt EXCEPT ![req[r].attr] = @ + 2]
  /\ req' = [req EXCEPT ![r].adds = @ + 1,
                        ![r].addDim = req[r].attr,
                        ![r].addCtx = req[r].span,
                        ![r].pc = "write"]
  /\ UNCHANGED <<lifeVars, srvVars>>
\* rollCnt.Add(ctx, 1, metric.WithAttributes(rollValueAttr)): an atomic
\* increment of the counter's series for the roll.value of rollValueAttr,
\* the attribute that line 135 set on the span
DiceAdd(r) ==
  /\ Alive /\ req[r].pc = "add"
  /\ rollCnt' = [rollCnt EXCEPT ![req[r].attr] = @ + 1]
  /\ req' = [req EXCEPT ![r].adds = @ + 1,
                        ![r].addDim = req[r].attr,
                        ![r].addCtx = req[r].span,
                        ![r].pc = "write"]
  /\ UNCHANGED <<lifeVars, srvVars>>

\* faulty variant of DiceWrite: a failed write ends the process, as
\* log.Fatalf would
DiceWriteFatal(r) ==
  /\ Alive /\ req[r].pc = "write"
  /\ LET resp == Itoa(req[r].roll) \o "\n"
     IN \E ok \in BOOLEAN :
          /\ req' = IF ok
                      THEN [req EXCEPT ![r].body = @ \o resp,
                                       ![r].status = 200,
                                       ![r].pc = "end"]
                      ELSE [req EXCEPT ![r].writeFailed = TRUE,
                                       ![r].stdlog = Append(@, "Escritura fallida"),
                                       ![r].pc = "end"]
          /\ runPc' = IF ok THEN runPc ELSE "exited"
          /\ exitCode' = IF ok THEN exitCode ELSE 1
  /\ UNCHANGED <<err, ctxDone, stopped, setupErr, otelCalls, otelErr, branch,
                 shutErr, first, srvVars, rollCnt>>
\* faulty variant of DiceWrite: the body is made from a second roll
DiceWriteRerolls(r) ==
  /\ Alive /\ req[r].pc = "write"
  /\ \E n \in 0..(Sides - 1) : \E ok \in BOOLEAN :
       req' = IF ok
                THEN [req EXCEPT ![r].body = @ \o Itoa(1 + n) \o "\n",
                                 ![r].status = 200,
                                 ![r].pc = "end"]
                ELSE [req EXCEPT ![r].writeFailed = TRUE,
                                 ![r].stdlog = Append(@, "Escritura fallida"),
                                 ![r].pc = "end"]
  /\ UNCHANGED <<lifeVars, srvVars, rollCnt>>
\* resp := strconv.Itoa(roll) + "\n"; io.WriteString(w, resp); a failed
\* write is logged with the standard logger and nothing else happens
DiceWrite(r) ==
  /\ Alive /\ req[r].pc = "write"
  /\ LET resp == Itoa(req[r].roll) \o "\n"
     IN \E ok \in BOOLEAN :
          req' = IF ok
                   THEN [req EXCEPT ![r].body = @ \o resp,
                                    ![r].status = 200,
                                    ![r].pc = "end"]
                   ELSE [req EXCEPT ![r].writeFailed = TRUE,
                                    ![r].stdlog = Append(@, "Escritura fallida"),
                                    ![r].pc = "end"]
  /\ UNCHANGED <<lifeVars, srvVars, rollCnt>>

\* faulty variant of DicePanic: span.End() is not deferred
DicePanicNoDefer(r) ==
  /\ Alive /\ req[r].pc = "write"
  /\ req' = [req EXCEPT ![r].panicked = TRUE, ![r].pc = "ret"]
  /\ UNCHANGED <<lifeVars, srvVars, rollCnt>>
\* the write to the http.ResponseWriter panics instead of returning: dice is
\* left at once and its deferred calls run
DicePanic(r) ==
  /\ Alive /\ req[r].pc = "write"
  /\ req' = [req EXCEPT ![r].panicked = TRUE, ![r].pc = "end"]
  /\ UNCHANGED <<lifeVars, srvVars, rollCnt>>

\* defer span.End(): runs when dice returns or panics
DiceEnd(r) ==
  /\ Alive /\ req[r].pc = "end"
  /\ req' = [req EXCEPT ![r].spanEnds = @ + 1, ![r].pc = "ret"]
  /\ UNCHANGED <<lifeVars, srvVars, rollCnt>>

\* the route's function has returned to the otelhttp wrapper and the server:
\* the server span ends; a handler that wrote nothing and did not panic
\* gets the implicit status 200
ServeDone(r) ==
  /\ Alive /\ req[r].pc = "ret"
  /\ req' = [req EXCEPT ![r].srvEnds = @ + 1,
                        ![r].status = IF @ = 0 /\ ~req[r].panicked
                                        THEN 200 ELSE @,
                        ![r].pc = "done"]
  /\ UNCHANGED <<lifeVars, srvVars, rollCnt>>

\* ------------------------------------------------------------------- Next
\* the steps of the connection and of the handler of request r
Handle(r) ==
  \/ ConnClose(r)
  \/ ServeHTTP(r)
  \/ RootHandler(r)
  \/ DiceStart(r)
  \/ DiceLog(r)
  \/ DiceAttr(r)
  \/ DiceAdd(r)
  \/ DiceWrite(r)
  \/ DicePanic(r)
  \/ DiceEnd(r)
  \/ ServeDone(r)

Next ==
  \/ Interrupt
  \/ SetupOTelSDK
  \/ Construct
  \/ SelectFault
  \/ SelectInterrupt
  \/ ShutdownBegin
  \/ ShutdownEnd
  \/ RunDefer
  \/ MainExit
  \/ ListenAndServe
  \/ ServeReturn
  \/ SendSrvErr
  \/ \E r \in 1..MaxReq :
       \/ \E in \in PlainInputs : Accept(r, in)
       \/ Handle(r)

\* the whole program: main, run(), the serving goroutine and the handlers
Spec == Init /\ [][Next]_vars

\* the whole program with a scheduler that runs the serving goroutine
\* whenever it can take its step at the send; nothing is assumed about the
\* interrupt, the handlers or run()
SpecGoroutine == Init /\ [][Next]_vars /\ WF_vars(SendSrvErr)

\* ------------------------------------------- the handlers of a running server
\* run() waits in its select, the accept loop runs, no interrupt has arrived
InitServing ==
  /\ runPc = "select"
  /\ err = Nil
  /\ exitCode = -1
  /\ ctxDone = FALSE
  /\ stopped = FALSE
  /\ setupErr = Nil
  /\ otelCalls = 0
  /\ otelErr = Nil
  /\ branch = "none"
  /\ shutErr = Nil
  /\ srvBuilt = TRUE
  /\ gPc = "serving"
  /\ lsErr = Nil
  /\ srvErr = <<>>
  /\ listening = TRUE
  /\ inShutdown = FALSE
  /\ req = [r \in 1..MaxDice |-> NoReq]
  /\ rollCnt = [v \in 1..Sides |-> 0]
  /\ first = "none"

NextServing ==
  \E r \in 1..MaxDice :
    \/ \E in \in PlainInputs : Accept(r, in)
    \/ Handle(r)

\* concurrent requests on a running server
SpecServing == InitServing /\ [][NextServing]_vars

NextPlayers ==
  \E r \in 1..MaxDice :
    \/ \E in \in Inputs : Accept(r, in)
    \/ Handle(r)

\* requests with and without a player value on a running server
SpecPlayers == InitServing /\ [][NextPlayers]_vars

\* the requests of the two routes and a path that no pattern but "/" matches
RouteInputs == PlainInputs \cup {[path |-> <<"dice", "Alice">>, query |-> ""]}

NextRoutes ==
  \E r \in 1..MaxDice :
    \/ \E in \in RouteInputs : Accept(r, in)
    \/ Handle(r)

\* requests to the routes and to a path that falls through to "/"
SpecRoutes == InitServing /\ [][NextRoutes]_vars

\* ================================================================= claims
RunReturned == runPc \in {"returned", "exited"} /\ setupErr = Nil /\ srvBuilt

\* the "/dice" requests
IsDice(r) == req[r].pattern = "/dice"

\* C1: on every shutdown path of run(), interrupt or server fault,
\* otelShutdown is invoked only once the server has stopped accepting and
\* no request handler is in flight any more.
C1_ShutdownOrderOnEveryPath ==
  otelCalls > 0 => (~listening /\ \A r \in Reqs : ~InFlight(r))

\* C2: a /dice request that is in flight when the interrupt arrives runs to
\* its end (log record, span attribute, counter increment, response write,
\* span end) before otelShutdown is invoked.
C2_InterruptedDiceCompletesFirst ==
  \A r \in Reqs :
    (req[r].atIntr /\ IsDice(r) /\ otelCalls > 0) =>
      /\ req[r].pc = "done"
      /\ req[r].logMsg # "" /\ req[r].attr = req[r].roll /\ req[r].adds = 1
      /\ req[r].spanEnds = 1

\* C3: when setup succeeded and run() returns, otelShutdown has been invoked
\* exactly once, on the fault branch and on the interrupt branch alike, and
\* never while the listener is still open; it is never invoked twice.
C3_OtelShutdownExactlyOnce ==
  /\ otelCalls <= 1
  /\ RunReturned => (otelCalls = 1 /\ branch \in {"fault", "interrupt"})
  /\ otelCalls > 0 => (~listening /\ (inShutdown \/ gPc \in {"send", "done"}))

C3_Witness ==
  /\ runPc = "returned" /\ branch = "fault" /\ lsErr = ErrAccept
  /\ otelCalls = 1

\* C4: whenever ListenAndServe returns an error other than ErrServerClosed,
\* run() returns an error containing it and the process exits non-zero, in
\* every interleaving with the interrupt.
C4_FaultAlwaysSurfaced ==
  (RunReturned /\ lsErr \in {ErrBind, ErrAccept}) =>
    /\ Contains(err, lsErr)
    /\ runPc = "exited" => exitCode = 1

\* C5: when setupOTelSDK returns an error the process aborts before serving:
\* no server is constructed, no serving goroutine is spawned, no connection
\* is accepted and no request is handled.
C5_SetupFailureAborts ==
  setupErr # Nil =>
    /\ runPc = "exited" /\ exitCode = 1
    /\ ~srvBuilt /\ gPc = "none" /\ ~listening
    /\ \A r \in Reqs : req[r].pc = "none"
    /\ otelCalls = 0

C5_Witness == setupErr # Nil /\ runPc = "exited"

\* C6: a non-nil error of srv.Shutdown or of otelShutdown always makes run()
\* return an error that contains it (so both when both fail) and the process
\* exit non-zero; an interrupt-driven shutdown in which both succeed makes
\* run() return nil and the process exit zero, although ListenAndServe
\* returned ErrServerClosed.
C6_ExitReflectsShutdownErrors ==
  RunReturned =>
    /\ shutErr # Nil => (Contains(err, shutErr) /\ err # Nil)
    /\ otelErr # Nil => (Contains(err, otelErr) /\ err # Nil)
    /\ (branch = "interrupt" /\ shutErr = Nil /\ otelErr = Nil) => err = Nil
    /\ runPc = "exited" =>
         /\ (shutErr # Nil \/ otelErr # Nil) => exitCode = 1
         /\ (branch = "interrupt" /\ shutErr = Nil /\ otelErr = Nil)
              => exitCode = 0

C6_Witness ==
  /\ runPc = "exited" /\ branch = "interrupt" /\ exitCode = 0
  /\ lsErr = ErrServerClosed /\ srvErr = <<ErrServerClosed>>

RECURSIVE SumTo(_, _)
SumTo(f, n) == IF n = 0 THEN 0 ELSE f[n] + SumTo(f, n - 1)

\* the requests that have executed rollCnt.Add
Added == {r \in Reqs : IsDice(r) /\ req[r].pc \in {"write", "end", "ret", "done"}}

\* C7: every /dice request that has passed line 136 has incremented
\* dice.rolls by exactly 1 under the dimension of its own roll: in any
\* interleaving of concurrent requests the count under v is the number of
\* such requests that rolled v and the sum over all dimensions is their
\* number.
C7_CounterCountsEachRollOnce ==
  /\ \A v \in 1..Sides :
       rollCnt[v] = Cardinality({r \in Added : req[r].roll = v})
  /\ SumTo(rollCnt, Sides) = Cardinality(Added)
  /\ \A r \in Reqs : req[r].adds = (IF r \in Added THEN 1 ELSE 0)

C7_Witness ==
  /\ Cardinality(Added) >= 2
  /\ \E v \in 1..Sides : rollCnt[v] >= 2
  /\ \A r \in Added : InFlight(r)

\* C8: every "roll" span is ended exactly once on every exit path of dice
\* (normal return, failed response write, panic): it is open while the body
\* of dice runs, ended once dice has been left, and never ended twice.
C8_RollSpanEndedExactlyOnce ==
  \A r \in Reqs :
    /\ req[r].spanStarts <= 1
    /\ req[r].spanEnds <= req[r].spanStarts
    /\ req[r].pc \in {"log", "attr", "add", "write", "end"} =>
         (req[r].spanStarts = 1 /\ req[r].spanEnds = 0)
    /\ (IsDice(r) /\ req[r].pc \in {"ret", "done"}) =>
         (req[r].spanStarts = 1 /\ req[r].spanEnds = 1)

C8_Witness ==
  /\ \E r \in Reqs : req[r].panicked /\ req[r].pc = "done" /\ req[r].spanEnds = 1
  /\ \E r \in Reqs : req[r].writeFailed /\ req[r].pc = "done" /\ req[r].spanEnds = 1

\* the player value a request carries, by query or by path
CarriedPlayer(r) ==
  IF req[r].query # "" THEN req[r].query
  ELSE IF Len(req[r].path) >= 2 THEN req[r].path[2] ELSE ""

\* C9: the log record of a /dice request that carries a non-empty player
\* value (by query or by path) has the message "<player> is rolling the
\* dice", and "Anonymous player is rolling the dice" when it carries none.
C9_LogMessageNamesPlayer ==
  \A r \in Reqs :
    req[r].logMsg # "" =>
      req[r].logMsg =
        (IF CarriedPlayer(r) # ""
           THEN CarriedPlayer(r) \o " is rolling the dice"
           ELSE "Anonymous player is rolling the dice")

\* C10: a request to "/" served by the running server gets the body
\* "Hola, Mundo!" with status 200 and produces a server-side log line.
C10_RootRespondsHolaMundo ==
  \A r \in Reqs :
    (req[r].pc = "done" /\ req[r].path = <<>>) =>
      /\ req[r].body = "Hola, Mundo!"
      /\ req[r].status = 200
      /\ Len(req[r].stdlog) = 1

\* the /dice requests that have rolled, and those whose response write
\* succeeded
Rolled(r) == IsDice(r) /\ req[r].pc \in {"log", "attr", "add", "write", "end", "ret", "done"}
Written(r) ==
  /\ IsDice(r) /\ req[r].pc \in {"end", "ret", "done"}
  /\ ~req[r].writeFailed /\ ~req[r].panicked

\* the decimal numerals of the faces of the die, each followed by a newline
FaceLine == <<"1\n", "2\n", "3\n", "4\n", "5\n", "6\n">>

\* C11: for every /dice request the rolled value is an integer in 1..6 and
\* the response body is exactly the decimal numeral of that roll, without a
\* leading zero, followed by exactly one newline.
C11_RollInRangeBodyIsDecimalLine ==
  \A r \in Reqs :
    /\ Rolled(r) => req[r].roll \in 1..6
    /\ Written(r) => req[r].body = FaceLine[req[r].roll]
    /\ (IsDice(r) /\ ~Written(r)) => req[r].body = ""

C11_Witness ==
  /\ \E r \in Reqs : Written(r) /\ req[r].roll = 1 /\ req[r].body = "1\n"
  /\ \E r \in Reqs : Written(r) /\ req[r].roll = 6 /\ req[r].body = "6\n"

\* the telemetry of request r is recorded: log record, span attribute and
\* counter increment, all of its roll
TelemetryRecorded(r) ==
  /\ req[r].logMsg # "" /\ req[r].logResult = req[r].roll
  /\ req[r].attr = req[r].roll
  /\ req[r].adds = 1 /\ rollCnt[req[r].roll] >= 1

\* run() and the serving goroutine are where a running server has them
ServerUntouched ==
  /\ runPc = "select" /\ err = Nil /\ exitCode = -1 /\ branch = "none"
  /\ gPc = "serving" /\ listening /\ ~inShutdown /\ srvErr = <<>>

\* C12: a failed write of the /dice response body is only logged locally
\* and goes no further than the request: the server keeps accepting and
\* run() is not affected; log record, span attribute and counter increment
\* were performed before the write was attempted, none of them is undone,
\* and the span is still ended.
C12_FailedWriteStaysLocal ==
  /\ \A r \in Reqs :
       /\ req[r].pc = "write" => TelemetryRecorded(r)
       /\ req[r].writeFailed =>
            /\ TelemetryRecorded(r)
            /\ req[r].stdlog = <<"Escritura fallida">>
            /\ req[r].pc \in {"end", "ret", "done"}
            /\ req[r].pc \in {"ret", "done"} => req[r].spanEnds = 1
  /\ (\E r \in Reqs : req[r].writeFailed) =>
       /\ ServerUntouched
       /\ \A q \in Reqs :
            (req[q].pc = "none" /\ \A p \in Reqs : p < q => req[p].pc # "none")
              => ENABLED (\E in \in PlainInputs : Accept(q, in))

C12_Witness ==
  /\ req[1].writeFailed /\ req[1].pc = "done" /\ req[1].spanEnds = 1
  /\ rollCnt[req[1].roll] = 1
  /\ Written(2) /\ req[2].pc = "done"

\* the /dice requests that have emitted their log record
Logged(r) == IsDice(r) /\ req[r].pc \in {"attr", "add", "write", "end", "ret", "done"}

\* C13: the log record and the counter increment of a /dice request are
\* emitted with the context of that request's own "roll" span, a child of
\* the span of the incoming request context: the record carries the trace id
\* of the roll span, which is the trace id of the server span, and under
\* concurrent requests never the trace id or span id of another request.
C13_LogAndAddCarryOwnRollSpan ==
  \A r \in Reqs :
    /\ Rolled(r) =>
         /\ req[r].span # NoSpan /\ req[r].srvSpan # NoSpan
         /\ req[r].parent = req[r].srvSpan
         /\ TraceID(req[r].span) = TraceID(req[r].srvSpan)
         /\ SpanID(req[r].span) # SpanID(req[r].srvSpan)
    /\ Logged(r) =>
         /\ req[r].logCtx = req[r].span
         /\ TraceID(req[r].logCtx) = TraceID(req[r].srvSpan)
         /\ \A q \in Reqs \ {r} :
              req[q].srvSpan # NoSpan =>
                /\ TraceID(req[r].logCtx) # TraceID(req[q].srvSpan)
                /\ SpanID(req[r].logCtx) # SpanID(req[q].srvSpan)
                /\ req[q].span # NoSpan =>
                     SpanID(req[r].logCtx) # SpanID(req[q].span)
    /\ r \in Added =>
         /\ req[r].addCtx = req[r].span
         /\ \A q \in Reqs \ {r} :
              req[q].span # NoSpan => req[r].addCtx # req[q].span

C13_Witness ==
  /\ Logged(1) /\ Logged(2) /\ 1 \in Added /\ 2 \in Added
  /\ InFlight(1) /\ InFlight(2)
  /\ req[1].logCtx # req[2].logCtx

\* the /dice requests that have set the span attribute
Attributed(r) == IsDice(r) /\ req[r].pc \in {"add", "write", "end", "ret", "done"}

\* C15: within one /dice request the same roll is used for all four
\* outputs: the result field of the log record, the roll.value attribute of
\* the span, the roll.value dimension of the counter increment and the
\* integer in the response body are equal, for every request and in every
\* interleaving of concurrent requests.
C15_OneRollFourOutputs ==
  \A r \in Reqs :
    /\ Logged(r) => req[r].logResult = req[r].roll
    /\ Attributed(r) => req[r].attr = req[r].logResult
    /\ r \in Added =>
         /\ req[r].addDim = req[r].attr
         /\ rollCnt[req[r].logResult] >= 1
    /\ Written(r) =>
         /\ req[r].body = FaceLine[req[r].addDim]
         /\ req[r].body = FaceLine[req[r].attr]
         /\ req[r].body = FaceLine[req[r].logResult]

C15_Witness ==
  /\ Written(1) /\ Written(2)
  /\ req[1].roll # req[2].roll
  /\ req[1].addDim = req[1].roll /\ req[2].addDim = req[2].roll
  /\ req[1].body # req[2].body

\* run() has left its select
PastSelect == srvBuilt /\ runPc \in {"shutdown", "draining", "defer", "returned", "exited"}

\* exactly one case of the select is taken and the other is never executed
C14_ExactlyOneBranch ==
  /\ PastSelect <=> branch \in {"fault", "interrupt"}
  /\ branch = "fault" => (~inShutdown /\ srvErr = <<>> /\ gPc = "done")
  /\ (branch = "interrupt" /\ gPc = "done") => srvErr = <<lsErr>>

\* C14: run() takes exactly one of the two cases of its select, and the
\* event that happened first decides which: the fault case when a value was
\* put on srvErr before the interrupt cancelled ctx, the interrupt case when
\* the interrupt came first; the other case is never executed as well.
C14_FirstEventWins ==
  /\ C14_ExactlyOneBranch
  /\ branch # "none" => branch = first

\* the two ways in which the later event wins
C14_LaterInterruptWins == first = "fault" /\ branch = "interrupt"
C14_LaterFaultWins == first = "interrupt" /\ branch = "fault"

\* the requests the wrapper has been entered for, and those it has returned
\* a response for
Entered(r) == req[r].pc \in HandlerPcs \cup {"done"}
Served(r) == req[r].pc = "done"

\* C16: every request handled by the server, whichever handler serves it
\* ("/dice", "/" or a path falling through to "/"), gets exactly one
\* server-level span of the whole-server wrapper, tagged with the matched
\* route pattern; the spans of one request are nested and never duplicated:
\* the server span is the parent of the span opened inside it, the inner
\* span ends first and the server span after it.
C16_OneServerSpanPerRequest ==
  \A r \in Reqs :
    /\ req[r].srvStarts = (IF Entered(r) THEN 1 ELSE 0)
    /\ req[r].srvEnds = (IF Served(r) THEN 1 ELSE 0)
    /\ Entered(r) =>
         /\ req[r].srvSpan # NoSpan
         /\ req[r].route = (IF req[r].path = <<"dice">> THEN "/dice" ELSE "/")
         /\ \A q \in Reqs \ {r} : req[q].srvSpan # req[r].srvSpan
    /\ req[r].spanStarts = (IF Rolled(r) THEN 1 ELSE 0)
    /\ req[r].spanStarts = 1 =>
         /\ req[r].parent = req[r].srvSpan
         /\ req[r].srvStarts = 1 /\ req[r].srvEnds <= req[r].spanEnds
    /\ req[r].srvEnds = 1 => req[r].spanEnds = req[r].spanStarts

C16_Witness ==
  /\ \E r \in Reqs : Served(r) /\ req[r].path = <<"dice", "Alice">>
                       /\ req[r].route = "/" /\ req[r].spanStarts = 0
  /\ \E r \in Reqs : Served(r) /\ req[r].route = "/dice"
                       /\ req[r].spanEnds = 1 /\ req[r].srvEnds = 1

\* while the process lives the send is never blocked, and srvErr holds at
\* most the one result
C17_SendHasRoom ==
  /\ Len(srvErr) <= SrvErrCap
  /\ gPc = "send" => Len(srvErr) < SrvErrCap
  /\ (gPc = "send" /\ Alive) => ENABLED SendSrvErr
  /\ gPc = "done" => (srvErr = <<lsErr>> \/ (srvErr = <<>> /\ branch = "fault"))

\* C17: the serving goroutine never blocks forever on its send to srvErr:
\* in every execution, the interrupt path on which run() never receives
\* from srvErr included, the one send of the result of ListenAndServe has
\* room in the channel and completes while the process lives, so that the
\* goroutine ends once ListenAndServe has returned.
C17_SendNeverBlocks ==
  /\ []C17_SendHasRoom
  /\ (gPc = "send") ~> (gPc = "done" \/ runPc = "exited")

C17_Witness ==
  /\ gPc = "done" /\ branch = "interrupt" /\ runPc = "draining"
  /\ srvErr = <<ErrServerClosed>>
  /\ \E r \in Reqs : InFlight(r)

\* C18: after an interrupt (one that arrives while run() has not left its
\* select and no fault has been reported), run() returns only by way of the
\* drain: srv.Shutdown has completed, no request handler is in flight any
\* more, and then the telemetry shutdown has been invoked.
C18_InterruptedRunReturnsAfterDrain ==
  (first = "interrupt" /\ RunReturned) =>
    /\ inShutdown /\ ~listening
    /\ \A r \in Reqs : ~InFlight(r)
    /\ otelCalls = 1

\* os.Interrupt has been received
Interrupted == ctxDone

\* C19: the context of every request handler derives from the signal
\* context that is the server's BaseContext: before an interrupt run() never
\* cancels the context of a request in flight, and from the interrupt on the
\* context of every request in flight, also of one accepted afterwards, is
\* cancelled.
C19_RequestCtxCancelledOnlyByInterrupt ==
  \A r \in Reqs :
    InFlight(r) => (RequestCtxCancelled(r) <=> Interrupted)

\* from the interrupt on the contexts of the running handlers are cancelled
C19_CancelledFromInterruptOn ==
  \A r \in Reqs : (InFlight(r) /\ Interrupted) => RequestCtxCancelled(r)

\* a handler whose context is cancelled goes on to its end
C19_HandlerOutlivesCancel ==
  \E r \in Reqs : req[r].atIntr /\ Interrupted /\ Written(r) /\ Served(r)

====
